---- MODULE Spec2Model ----
(***************************************************************************)
(* A model of named-retry (src/src/lib.rs): the Retry policy, its builder  *)
(* setters, and Retry::run driving a fallible asynchronous function with   *)
(* exponential backoff and optional jitter.                                *)
(*                                                                         *)
(* Durations are whole ticks of std::time::Duration (its resolution; the   *)
(* scenarios of the test suite are written with TicksPerSec ticks to the   *)
(* second).  An f64 delay factor is a ratio [num, den]; den = 0 stands for *)
(* a non-finite factor (f64::INFINITY).  The clock is tokio's paused test  *)
(* clock: it advances only while run sleeps.                               *)
(***************************************************************************)
EXTENDS Integers, Sequences, FiniteSets

VARIABLES
    policy,     \* the Retry value: name, attempts, base_delay, delay_factor, enable_jitter
    func,       \* the function handed to run
    pc,         \* where run stands: "new", "func", "sleep", "returned", "panicked"
    i,          \* run's loop index
    delay,      \* run's local `delay`
    now,        \* time elapsed on the clock since run was called
    calls,      \* start time of every invocation of func, in order
    outcomes,   \* result of every completed invocation of func, in order
    warned,     \* the warn! events emitted, in order
    sleeps,     \* the sleeps started, in order: scheduled delay and duration slept
    result,     \* what run returned, or None
    panic,      \* the message run panicked with, or NoPanic
    draws,      \* how many times run has called fastrand::f64()
    other       \* a second call of run on the same policy: its own copy of the
                \* policy (self), its locals and what it has done

vars == <<policy, func, pc, i, delay, now, calls, outcomes, warned, sleeps, result, panic,
          draws, other>>

----------------------------------------------------------------------------
(* Bounds of the model: the largest attempts a policy is given, the number *)
(* of equally spaced values fastrand::f64() is drawn from, and the ticks   *)
(* the scenarios of the tests count to the second.                         *)

MaxAttempts == 5
JitterDen == 2
TicksPerSec == 1000

(* The largest attempts of a policy that two calls of run share. *)
ParMaxAttempts == 3

----------------------------------------------------------------------------
(* Values and inputs *)

None == [tag |-> "None"]
NoPanic == "none"
Ok(v) == [tag |-> "Ok", val |-> v]
Err(e) == [tag |-> "Err", val |-> e]
Unit == "()"

Values == {"v1", "v2"}
Errors == {"e1", "e2"}

F(n, d) == [num |-> n, den |-> d]
Infinity == F(1, 0)

AttemptsRange == 0..MaxAttempts
BaseDelays == {0, 1, 3, TicksPerSec \div 10, TicksPerSec}
DelayFactors == {F(-1, 1), F(0, 1), F(1, 1), F(5, 4), F(2, 1), F(10, 1), Infinity}

(* The functions run is called with: an arbitrary caller-supplied one,      *)
(* which may return any value or error each time; one that fails on its     *)
(* first until - 1 invocations, with a different error from one invocation  *)
(* to the next, and succeeds from then on (until = 1 is the closure of      *)
(* successful_retry, until > attempts that of failed_retry); and the        *)
(* closures of the delayed_retry tests, which fail while elapsed < until.   *)
Funcs == {[kind |-> "any", until |-> 0]}
         \cup {[kind |-> "nth", until |-> k] : k \in 1..(MaxAttempts + 1)}
         \cup {[kind |-> "elapsed", until |-> 5 * TicksPerSec],
               [kind |-> "elapsed", until |-> TicksPerSec \div 2]}

----------------------------------------------------------------------------
(* f64 and Duration arithmetic *)

IsNegative(f) == f.num < 0
IsFinite(f) == f.den # 0

(* Duration::mul_f64 panics when the product is not finite (or overflows). *)
MulPanics(d, f) == ~IsFinite(f)

(* faulty variant: the product truncated to a whole tick instead of rounded *)
MulF64_Truncates(d, f) == {(d * f.num) \div f.den}

(* faulty variant: the delay is never multiplied *)
MulF64_NoEscalation(d, f) == {d}

(* Duration::mul_f64 for a finite non-negative factor: the product rounded *)
(* to the nearest tick.  At an exact half the f64 error of as_secs_f64     *)
(* decides the direction, so both neighbours are possible.                 *)
MulF64(d, f) ==
    LET p == d * f.num
        q == p \div f.den
        r == p % f.den
    IN  IF 2 * r < f.den THEN {q}
        ELSE IF 2 * r > f.den THEN {q + 1}
        ELSE {q, q + 1}

(* faulty variant: the factor drawn from [0, 1) instead of [0.5, 1) *)
JitterFactor_FullRange(j) == F(j, JitterDen)

(* The factor 0.5 + fastrand::f64() / 2.0 for the draw j / JitterDen. *)
JitterFactor(j) == F(JitterDen + j, 2 * JitterDen)

(* The calls of fastrand::f64() one apply_jitter makes. *)
Draws(p) == IF p.enable_jitter THEN 1 ELSE 0

(* Retry::apply_jitter: the durations it may return for a scheduled delay. *)
ApplyJitter(p, d) ==
    IF p.enable_jitter
    THEN UNION {MulF64(d, JitterFactor(j)) : j \in 0..(JitterDen - 1)}
    ELSE {d}

----------------------------------------------------------------------------
(* Construction: Retry::new and the builder setters *)

(* faulty variant: new starts from a base delay of one tick *)
New_NonZeroDelay(name) ==
    [name |-> name, attempts |-> 3, base_delay |-> 1,
     delay_factor |-> F(1, 1), enable_jitter |-> FALSE]

New(name) ==
    [name |-> name, attempts |-> 3, base_delay |-> 0,
     delay_factor |-> F(1, 1), enable_jitter |-> FALSE]

(* The second call before it is made. *)
NotCalled ==
    [pc |-> "new", self |-> None, func |-> None, i |-> 0, delay |-> 0, calls |-> 0,
     outcomes |-> <<>>, warned |-> <<>>, sleeps |-> <<>>, result |-> None,
     panic |-> NoPanic, prior |-> "new"]

Init ==
    /\ policy = New("test")
    /\ func = [kind |-> "any", until |-> 0]
    /\ pc = "new"
    /\ i = 0
    /\ delay = 0
    /\ now = 0
    /\ calls = <<>>
    /\ outcomes = <<>>
    /\ warned = <<>>
    /\ sleeps = <<>>
    /\ result = None
    /\ panic = NoPanic
    /\ draws = 0
    /\ other = NotCalled

callVars == <<func, pc, i, delay, now, calls, outcomes, warned, sleeps, result, panic, draws>>
runVars == <<callVars, other>>

(* faulty variant: attempts(n) rebuilds the policy from new and loses the  *)
(* fields set before                                                       *)
WithAttempts_FromNew(p, n) ==
    [name |-> p.name, attempts |-> n, base_delay |-> 0,
     delay_factor |-> F(1, 1), enable_jitter |-> FALSE]

(* The setters as functions from the Retry they are called on (taken by    *)
(* value) to the Retry they return.                                        *)
WithAttempts(p, n) == [p EXCEPT !.attempts = n]
WithBaseDelay(p, d) == [p EXCEPT !.base_delay = d]
WithDelayFactor(p, f) == [p EXCEPT !.delay_factor = f]
WithJitter(p, enabled) == [p EXCEPT !.enable_jitter = enabled]

Attempts(n) ==
    /\ pc = "new"
    /\ policy' = WithAttempts(policy, n)
    /\ UNCHANGED runVars

BaseDelay(d) ==
    /\ pc = "new"
    /\ policy' = WithBaseDelay(policy, d)
    /\ UNCHANGED runVars

DelayFactor(f) ==
    /\ pc = "new"
    /\ policy' = WithDelayFactor(policy, f)
    /\ UNCHANGED runVars

Jitter(enabled) ==
    /\ pc = "new"
    /\ policy' = WithJitter(policy, enabled)
    /\ UNCHANGED runVars

----------------------------------------------------------------------------
(* Retry::run *)

(* faulty variant: attempts = 0 is let through *)
AssertAttempts_AllowsZero(p) == p.attempts >= 0

(* faulty variant: the delay factor is not checked *)
AssertDelay_IgnoresFactor(p) == p.base_delay >= 0

AssertAttempts(p) == p.attempts > 0
AssertDelay(p) == p.base_delay >= 0 /\ ~IsNegative(p.delay_factor)

(* `for i in 0..self.attempts` has an iteration for n; when it has none the *)
(* loop is left and unreachable!() panics.                                  *)
InRange(n, p) == n < p.attempts

(* run is called: the two assertions, `delay = self.base_delay`, and the   *)
(* first func() of the loop, up to its await.                              *)
Run(f) ==
    /\ pc = "new"
    /\ func' = f
    /\ IF ~AssertAttempts(policy)
       THEN /\ pc' = "panicked"
            /\ panic' = "attempts must be greater than 0"
            /\ UNCHANGED <<i, delay, calls>>
       ELSE IF ~AssertDelay(policy)
       THEN /\ pc' = "panicked"
            /\ panic' = "retry delay cannot be negative"
            /\ UNCHANGED <<i, delay, calls>>
       ELSE /\ delay' = policy.base_delay
            /\ i' = 0
            /\ IF InRange(0, policy)
               THEN /\ calls' = Append(calls, now)
                    /\ pc' = "func"
                    /\ UNCHANGED panic
               ELSE /\ pc' = "panicked"
                    /\ panic' = "unreachable"
                    /\ UNCHANGED calls
    /\ UNCHANGED <<policy, now, outcomes, warned, sleeps, result, draws, other>>

(* The results func may produce when it completes now. *)
FuncResults ==
    IF func.kind = "elapsed"
    THEN IF now < func.until THEN {Err(Unit)} ELSE {Ok(Unit)}
    ELSE IF func.kind = "nth"
    THEN IF Len(calls) < func.until
         THEN {Err(IF Len(calls) % 2 = 1 THEN "e1" ELSE "e2")}
         ELSE {Ok("v1")}
    ELSE {Ok(v) : v \in Values} \cup {Err(e) : e \in Errors}

(* faulty variant: the error is returned one attempt early *)
IsLastAttempt_OffByOne == i >= policy.attempts - 2

(* faulty variant: a failure of the last attempt is retried like any other *)
IsLastAttempt_Never == FALSE

IsLastAttempt == i = policy.attempts - 1

(* faulty variant: the error "e2" is classified as fatal and returned at   *)
(* once                                                                    *)
FuncReturns_FatalError(res) ==
    /\ pc = "func"
    /\ res \in FuncResults
    /\ outcomes' = Append(outcomes, res)
    /\ IF res.tag = "Ok" \/ IsLastAttempt \/ res = Err("e2")
       THEN /\ result' = res
            /\ pc' = "returned"
            /\ UNCHANGED <<warned, sleeps, draws>>
       ELSE /\ warned' = Append(warned, [name |-> policy.name, err |-> res.val])
            /\ \E s \in ApplyJitter(policy, delay) :
                   sleeps' = Append(sleeps, [scheduled |-> delay, slept |-> s])
            /\ draws' = draws + Draws(policy)
            /\ pc' = "sleep"
            /\ UNCHANGED result
    /\ UNCHANGED <<policy, func, i, delay, now, calls, panic, other>>

(* func().await completes with res: the match of the loop body, up to the  *)
(* return or to the await of time::sleep.                                  *)
FuncReturns(res) ==
    /\ pc = "func"
    /\ res \in FuncResults
    /\ outcomes' = Append(outcomes, res)
    /\ IF res.tag = "Ok" \/ IsLastAttempt
       THEN /\ result' = res
            /\ pc' = "returned"
            /\ UNCHANGED <<warned, sleeps, draws>>
       ELSE /\ warned' = Append(warned, [name |-> policy.name, err |-> res.val])
            /\ \E s \in ApplyJitter(policy, delay) :
                   sleeps' = Append(sleeps, [scheduled |-> delay, slept |-> s])
            /\ draws' = draws + Draws(policy)
            /\ pc' = "sleep"
            /\ UNCHANGED result
    /\ UNCHANGED <<policy, func, i, delay, now, calls, panic, other>>

(* faulty variant: the delay is escalated from the jittered duration that  *)
(* was slept                                                               *)
SleepElapsed_Compounds ==
    /\ pc = "sleep"
    /\ ~MulPanics(delay, policy.delay_factor)
    /\ now' = now + sleeps[Len(sleeps)].slept
    /\ delay' \in MulF64(sleeps[Len(sleeps)].slept, policy.delay_factor)
    /\ i' = i + 1
    /\ calls' = Append(calls, now')
    /\ pc' = "func"
    /\ UNCHANGED <<policy, func, outcomes, warned, sleeps, result, panic, draws, other>>

(* faulty variant: the escalated delay is stored in the policy *)
SleepElapsed_WritesBack ==
    /\ pc = "sleep"
    /\ ~MulPanics(delay, policy.delay_factor)
    /\ now' = now + sleeps[Len(sleeps)].slept
    /\ delay' \in MulF64(delay, policy.delay_factor)
    /\ policy' = [policy EXCEPT !.base_delay = delay']
    /\ i' = i + 1
    /\ calls' = Append(calls, now')
    /\ pc' = "func"
    /\ UNCHANGED <<func, outcomes, warned, sleeps, result, panic, draws, other>>

(* faulty variant: the sleep is not awaited, and the next attempt starts   *)
(* while it is still running                                               *)
SleepElapsed_NotAwaited ==
    /\ pc = "sleep"
    /\ ~MulPanics(delay, policy.delay_factor)
    /\ delay' \in MulF64(delay, policy.delay_factor)
    /\ i' = i + 1
    /\ calls' = Append(calls, now)
    /\ pc' = "func"
    /\ UNCHANGED <<policy, func, now, outcomes, warned, sleeps, result, panic, draws, other>>

(* time::sleep completes: the delay is escalated and the loop calls func   *)
(* again.                                                                  *)
SleepElapsed ==
    /\ pc = "sleep"
    /\ now' = now + sleeps[Len(sleeps)].slept
    /\ IF MulPanics(delay, policy.delay_factor)
       THEN /\ pc' = "panicked"
            /\ panic' = "mul_f64"
            /\ UNCHANGED <<i, delay, calls>>
       ELSE /\ delay' \in MulF64(delay, policy.delay_factor)
            /\ i' = i + 1
            /\ IF InRange(i + 1, policy)
               THEN /\ calls' = Append(calls, now')
                    /\ pc' = "func"
                    /\ UNCHANGED panic
               ELSE /\ pc' = "panicked"
                    /\ panic' = "unreachable"
                    /\ UNCHANGED calls
    /\ UNCHANGED <<policy, func, outcomes, warned, sleeps, result, draws, other>>

Next ==
    \/ \E n \in AttemptsRange : Attempts(n)
    \/ \E d \in BaseDelays : BaseDelay(d)
    \/ \E f \in DelayFactors : DelayFactor(f)
    \/ \E b \in BOOLEAN : Jitter(b)
    \/ \E f \in Funcs : Run(f)
    \/ \E res \in {Ok(v) : v \in Values \cup {Unit}} \cup {Err(e) : e \in Errors \cup {Unit}} :
           FuncReturns(res)
    \/ SleepElapsed

Spec == Init /\ [][Next]_vars

(* Every invocation of func completes and every sleep elapses. *)
Fairness ==
    /\ WF_vars(\E res \in {Ok(v) : v \in Values \cup {Unit}}
                           \cup {Err(e) : e \in Errors \cup {Unit}} : FuncReturns(res))
    /\ WF_vars(SleepElapsed)

SpecFair == Spec /\ Fairness

----------------------------------------------------------------------------
(* A second call of run on the same policy.  Retry is Copy and run takes   *)
(* self by value: the call works on its own copy of the policy and on its  *)
(* own locals i and delay.  Its steps interleave with those of the first   *)
(* call, and the future it returns can be dropped at either await.         *)

ParPolicies ==
    LET p == WithBaseDelay(WithAttempts(New("test"), ParMaxAttempts), 3)
    IN  {New("test"),
         WithAttempts(New("test"), 0),
         WithDelayFactor(p, F(-1, 1)),
         WithDelayFactor(p, F(5, 4)),
         WithDelayFactor(p, F(2, 1)),
         WithJitter(WithAttempts(WithDelayFactor(p, F(2, 1)), 3), TRUE),
         WithDelayFactor(p, Infinity)}

ParFuncs == {f \in Funcs : f.kind = "any"}
OtherFuncs == {f \in Funcs : f.kind = "nth" /\ f.until \in {2, MaxAttempts + 1}}

InitPar ==
    /\ policy \in ParPolicies
    /\ func = [kind |-> "any", until |-> 0]
    /\ pc = "new"
    /\ i = 0
    /\ delay = 0
    /\ now = 0
    /\ calls = <<>>
    /\ outcomes = <<>>
    /\ warned = <<>>
    /\ sleeps = <<>>
    /\ result = None
    /\ panic = NoPanic
    /\ draws = 0
    /\ other = NotCalled

(* faulty variant: the second call takes up the delay where the first call *)
(* left it                                                                 *)
OtherRun_KeepsDelay(f) ==
    /\ other.pc = "new"
    /\ AssertAttempts(policy) /\ AssertDelay(policy)
    /\ other' = [other EXCEPT !.self = policy, !.func = f, !.prior = pc,
                              !.delay = IF pc = "new" THEN policy.base_delay ELSE delay,
                              !.i = 0, !.calls = 1, !.pc = "func"]
    /\ UNCHANGED <<policy, callVars>>

OtherRun(f) ==
    /\ other.pc = "new"
    /\ LET called == [other EXCEPT !.self = policy, !.func = f, !.prior = pc]
       IN  other' =
               IF ~AssertAttempts(called.self)
               THEN [called EXCEPT !.pc = "panicked",
                                   !.panic = "attempts must be greater than 0"]
               ELSE IF ~AssertDelay(called.self)
               THEN [called EXCEPT !.pc = "panicked",
                                   !.panic = "retry delay cannot be negative"]
               ELSE IF InRange(0, called.self)
               THEN [called EXCEPT !.delay = called.self.base_delay, !.i = 0,
                                   !.calls = 1, !.pc = "func"]
               ELSE [called EXCEPT !.delay = called.self.base_delay, !.i = 0,
                                   !.pc = "panicked", !.panic = "unreachable"]
    /\ UNCHANGED <<policy, callVars>>

OtherFuncResults ==
    IF other.calls < other.func.until
    THEN {Err(IF other.calls % 2 = 1 THEN "e1" ELSE "e2")}
    ELSE {Ok("v1")}

OtherFuncReturns(res) ==
    /\ other.pc = "func"
    /\ res \in OtherFuncResults
    /\ IF res.tag = "Ok" \/ other.i = other.self.attempts - 1
       THEN other' = [other EXCEPT !.outcomes = Append(@, res), !.result = res,
                                   !.pc = "returned"]
       ELSE \E s \in ApplyJitter(other.self, other.delay) :
                other' = [other EXCEPT
                              !.outcomes = Append(@, res),
                              !.warned = Append(@, [name |-> other.self.name, err |-> res.val]),
                              !.sleeps = Append(@, [scheduled |-> other.delay, slept |-> s]),
                              !.pc = "sleep"]
    /\ UNCHANGED <<policy, callVars>>

(* faulty variant: the delay is a single value that both calls escalate *)
OtherSleepElapsed_SharedDelay ==
    /\ other.pc = "sleep"
    /\ ~MulPanics(delay, other.self.delay_factor)
    /\ delay' \in MulF64(delay, other.self.delay_factor)
    /\ other' = [other EXCEPT !.delay = delay', !.i = @ + 1, !.calls = @ + 1, !.pc = "func"]
    /\ UNCHANGED <<policy, func, pc, i, now, calls, outcomes, warned, sleeps, result, panic,
                   draws>>

(* faulty variant: the timer of a dropped call still fires and the call    *)
(* goes on                                                                 *)
OtherSleepElapsed_AfterCancel ==
    /\ other.pc \in {"sleep", "cancelled"}
    /\ Len(other.sleeps) = other.calls
    /\ ~MulPanics(other.delay, other.self.delay_factor)
    /\ \E d \in MulF64(other.delay, other.self.delay_factor) :
           other' = [other EXCEPT !.delay = d, !.i = @ + 1, !.calls = @ + 1, !.pc = "func"]
    /\ UNCHANGED <<policy, callVars>>

OtherSleepElapsed ==
    /\ other.pc = "sleep"
    /\ IF MulPanics(other.delay, other.self.delay_factor)
       THEN other' = [other EXCEPT !.pc = "panicked", !.panic = "mul_f64"]
       ELSE \E d \in MulF64(other.delay, other.self.delay_factor) :
                other' = IF InRange(other.i + 1, other.self)
                         THEN [other EXCEPT !.delay = d, !.i = @ + 1, !.calls = @ + 1,
                                            !.pc = "func"]
                         ELSE [other EXCEPT !.delay = d, !.i = @ + 1,
                                            !.pc = "panicked", !.panic = "unreachable"]
    /\ UNCHANGED <<policy, callVars>>

(* The future of the second call is dropped while it is suspended at       *)
(* func().await or at time::sleep(..).await: it is never polled again.     *)
OtherCancel ==
    /\ other.pc \in {"func", "sleep"}
    /\ other' = [other EXCEPT !.pc = "cancelled"]
    /\ UNCHANGED <<policy, callVars>>

NextPar ==
    \/ \E f \in ParFuncs : Run(f)
    \/ \E res \in {Ok(v) : v \in Values} \cup {Err(e) : e \in Errors} : FuncReturns(res)
    \/ SleepElapsed
    \/ \E f \in OtherFuncs : OtherRun(f)
    \/ \E res \in {Ok("v1")} \cup {Err(e) : e \in Errors} : OtherFuncReturns(res)
    \/ OtherSleepElapsed
    \/ OtherCancel

SpecPar == InitPar /\ [][NextPar]_vars

TypeOK ==
    /\ pc \in {"new", "func", "sleep", "returned", "panicked"}
    /\ policy.attempts \in AttemptsRange
    /\ policy.base_delay \in Nat
    /\ i \in 0..MaxAttempts
    /\ delay \in Nat
    /\ now \in Nat
    /\ Len(calls) <= MaxAttempts

----------------------------------------------------------------------------
(* Vocabulary of the properties *)

Valid(p) == AssertAttempts(p) /\ AssertDelay(p)
Ended == pc \in {"returned", "panicked"}
AlwaysFails(f) == f.kind = "nth" /\ f.until > MaxAttempts
SucceedsAt(f, k) == f.kind = "nth" /\ f.until = k
Failed(k) == outcomes[k].tag = "Err"

RECURSIVE Pow(_, _)
Pow(x, n) == IF n = 0 THEN 1 ELSE x * Pow(x, n - 1)

RECURSIVE SumSlept(_)
SumSlept(k) == IF k = 0 THEN 0 ELSE SumSlept(k - 1) + sleeps[k].slept

Abs(x) == IF x < 0 THEN -x ELSE x

IsPrefix(a, b) == Len(a) <= Len(b) /\ \A k \in 1..Len(a) : a[k] = b[k]

(* run was called as in tests::delayed_retry *)
DelayedRetry ==
    /\ pc # "new"
    /\ policy = [New("test") EXCEPT !.attempts = 5, !.base_delay = TicksPerSec,
                                    !.delay_factor = F(2, 1)]
    /\ func = [kind |-> "elapsed", until |-> 5 * TicksPerSec]

(* run was called as in tests::delayed_retry_with_jitter *)
DelayedRetryWithJitter ==
    /\ pc # "new"
    /\ policy = [New("test") EXCEPT !.attempts = 4, !.base_delay = TicksPerSec \div 10,
                                    !.delay_factor = F(10, 1), !.enable_jitter = TRUE]
    /\ func = [kind |-> "elapsed", until |-> TicksPerSec \div 2]

----------------------------------------------------------------------------
(* C1: for attempts = N >= 1 and a function that fails on every invocation, *)
(* run invokes it exactly N times and returns the Err of the N-th           *)
(* invocation.  Violated: a policy that passes both assertions can make     *)
(* `delay.mul_f64(self.delay_factor)` panic after the first sleep, so that  *)
(* run ends after fewer than N invocations and returns nothing.             *)
C1_AllFailExactlyN ==
    /\ Len(calls) <= policy.attempts \/ ~Valid(policy)
    /\ (Ended /\ Valid(policy) /\ AlwaysFails(func)) =>
           /\ pc = "returned"
           /\ Len(calls) = policy.attempts
           /\ result.tag = "Err"
           /\ result = outcomes[policy.attempts]

(* C2: for attempts = N >= 1 and a function that fails on invocations       *)
(* 1..k-1 and succeeds on invocation k <= N, run invokes it exactly k       *)
(* times, sleeps exactly k-1 times and returns the Ok of the k-th           *)
(* invocation.  Violated for k >= 2 in the same way as C1.                  *)
C2_SucceedAtK ==
    \A k \in 1..MaxAttempts :
        (Ended /\ Valid(policy) /\ SucceedsAt(func, k) /\ k <= policy.attempts) =>
            /\ pc = "returned"
            /\ Len(calls) = k
            /\ Len(sleeps) = k - 1
            /\ result.tag = "Ok"
            /\ result = outcomes[k]

(* C3: whenever run returns, its result is the unmodified result of the     *)
(* last invocation it made; an Err result is that of the attempt with index *)
(* attempts - 1, and nothing is returned before.                            *)
C3_ResultIsLastOutcome ==
    /\ pc # "returned" => result = None
    /\ pc = "returned" =>
           /\ Len(outcomes) = Len(calls)
           /\ result = outcomes[Len(outcomes)]
           /\ \A k \in 1..(Len(outcomes) - 1) : Failed(k)
           /\ result.tag = "Err" => (Len(calls) = policy.attempts /\ i = policy.attempts - 1)

(* an Err is returned after an earlier attempt failed with another error *)
C3_Witness ==
    /\ pc = "returned"
    /\ result = Err("e2")
    /\ Len(outcomes) >= 2
    /\ outcomes[Len(outcomes) - 1] = Err("e1")

(* C4: with attempts = 0 every run panics before the function is invoked:   *)
(* no invocation, no sleep, no notification, no value returned, even for a  *)
(* function that would succeed; the setter attempts(0) itself does not      *)
(* panic.                                                                   *)
C4_ZeroAttemptsPanics ==
    /\ pc = "new" => panic = NoPanic
    /\ (policy.attempts = 0 /\ pc # "new") =>
           /\ pc = "panicked"
           /\ panic = "attempts must be greater than 0"
           /\ calls = <<>>
           /\ outcomes = <<>>
           /\ sleeps = <<>>
           /\ warned = <<>>
           /\ result = None

(* run was called with attempts = 0 on a function that always succeeds *)
C4_Witness ==
    /\ policy.attempts = 0
    /\ pc = "panicked"
    /\ SucceedsAt(func, 1)

(* C5: with attempts >= 1 and a negative delay_factor (a Duration is never  *)
(* negative) every run panics before the function is invoked, with no       *)
(* invocation and no sleep; with base_delay >= 0 and delay_factor >= 0,     *)
(* delay_factor = 0 included, both assertions pass and the function is      *)
(* invoked.                                                                 *)
C5_NegativeDelayPanics ==
    /\ policy.base_delay >= 0
    /\ (policy.attempts >= 1 /\ pc # "new") =>
           IF IsNegative(policy.delay_factor)
           THEN /\ pc = "panicked"
                /\ panic = "retry delay cannot be negative"
                /\ calls = <<>>
                /\ outcomes = <<>>
                /\ sleeps = <<>>
           ELSE /\ panic \notin {"attempts must be greater than 0",
                                 "retry delay cannot be negative"}
                /\ Len(calls) >= 1

(* run was called with a negative delay_factor *)
C5_Witness ==
    /\ policy.attempts >= 1
    /\ IsNegative(policy.delay_factor)
    /\ pc = "panicked"

(* C6, as stated: without jitter the k-th sleep lasts exactly               *)
(* base_delay * delay_factor^(k-1), and attempt j starts at the sum of the  *)
(* first j-1 of these.  Violated: every escalation rounds the delay to a    *)
(* whole tick, e.g. base_delay = 1 tick and delay_factor = 1.25 sleep 1     *)
(* tick every time.                                                         *)
C6_ExactGeometricSleeps ==
    (~policy.enable_jitter /\ IsFinite(policy.delay_factor)) =>
        \A k \in 1..Len(sleeps) :
            sleeps[k].slept * Pow(policy.delay_factor.den, k - 1)
                = policy.base_delay * Pow(policy.delay_factor.num, k - 1)

(* C6, amended: without jitter the first sleep lasts base_delay and every   *)
(* later sleep is the previous one multiplied by delay_factor and rounded   *)
(* to a whole tick, which is base_delay * delay_factor^(k-1) for a whole    *)
(* delay_factor; attempt j starts when the first j-1 sleeps have elapsed;   *)
(* with delay_factor = 0 every sleep after the first lasts 0; and the run   *)
(* of tests::delayed_retry makes exactly 4 invocations and returns Ok.      *)
C6_RoundedGeometricSleeps ==
    /\ ~policy.enable_jitter =>
        /\ \A k \in 1..Len(sleeps) :
               /\ sleeps[k].slept = sleeps[k].scheduled
               /\ k = 1 => sleeps[k].slept = policy.base_delay
               /\ k > 1 =>
                      2 * Abs(sleeps[k].slept * policy.delay_factor.den
                              - sleeps[k - 1].slept * policy.delay_factor.num)
                          <= policy.delay_factor.den
               /\ policy.delay_factor.den = 1 =>
                      sleeps[k].slept = policy.base_delay * Pow(policy.delay_factor.num, k - 1)
               /\ (policy.delay_factor.num = 0 /\ k > 1) => sleeps[k].slept = 0
        /\ \A j \in 1..Len(calls) : calls[j] = SumSlept(j - 1)
    /\ (DelayedRetry /\ Ended) =>
           (pc = "returned" /\ Len(calls) = 4 /\ result = Ok(Unit))

(* a run without jitter whose escalations were rounded: 3, 3.75, 5, 6.25 *)
C6_Witness ==
    /\ pc = "returned"
    /\ ~policy.enable_jitter
    /\ policy.delay_factor = F(5, 4)
    /\ Len(sleeps) = 4
    /\ sleeps[1].slept = 3
    /\ sleeps[4].slept = 6

C8_JitterInHalfOpenRange ==
    \A k \in 1..Len(sleeps) :
        IF policy.enable_jitter
        THEN /\ sleeps[k].scheduled <= 2 * sleeps[k].slept
             /\ sleeps[k].slept < sleeps[k].scheduled
        ELSE sleeps[k].slept = sleeps[k].scheduled

(* C9: in the run of tests::delayed_retry_with_jitter, whatever the jitter  *)
(* draws, the second attempt starts before 500ms and the third at or after  *)
(* 500ms, so that run makes exactly 3 invocations and returns Ok.           *)
C9_JitterRunMakesThreeCalls ==
    DelayedRetryWithJitter =>
        /\ Len(calls) <= 3
        /\ Len(calls) >= 2 => calls[2] < TicksPerSec \div 2
        /\ Len(calls) >= 3 => calls[3] >= TicksPerSec \div 2
        /\ Ended => (pc = "returned" /\ Len(calls) = 3 /\ result = Ok(Unit))

(* the run of tests::delayed_retry_with_jitter has returned after two       *)
(* sleeps shortened by jitter                                               *)
C9_Witness ==
    /\ DelayedRetryWithJitter
    /\ pc = "returned"
    /\ sleeps[1].slept < sleeps[1].scheduled
    /\ sleeps[2].slept < sleeps[2].scheduled

(* C10: a notification (name, error) is emitted for exactly the failed      *)
(* attempts of index < attempts - 1, before the sleep that follows the      *)
(* failure; the final failure and a success emit none and are followed by   *)
(* no sleep.  At every point notifications = sleeps started = non-final     *)
(* failures so far <= attempts - 1, and invocations <= attempts.            *)
C10_NotifyOnNonFinalFailure ==
    LET nonFinal == {k \in 1..Len(outcomes) : Failed(k) /\ k - 1 < policy.attempts - 1}
    IN  /\ Len(warned) = Len(sleeps)
        /\ Len(warned) = Cardinality(nonFinal)
        /\ nonFinal = 1..Len(warned)
        /\ \A k \in 1..Len(warned) :
               warned[k] = [name |-> policy.name, err |-> outcomes[k].val]
        /\ pc = "sleep" => (Len(warned) = Len(outcomes) /\ Failed(Len(outcomes)))
        /\ pc = "func" => Len(warned) = Len(calls) - 1
        /\ pc = "returned" => Len(warned) = Len(outcomes) - 1
        /\ Len(calls) >= 1 =>
               (Len(warned) <= policy.attempts - 1 /\ Len(calls) <= policy.attempts)

(* a run has returned the Err of its last attempt after notifying two       *)
(* earlier failures with different errors                                   *)
C10_Witness ==
    /\ pc = "returned"
    /\ result.tag = "Err"
    /\ policy.attempts = 3
    /\ warned = <<[name |-> "test", err |-> "e1"], [name |-> "test", err |-> "e2"]>>

(* C11: the attempts of one run are strictly sequential: at most one       *)
(* invocation of func is in flight, none is in flight during a sleep, and  *)
(* attempt k+1 starts only when attempt k has completed and the sleep that *)
(* follows its failure has fully elapsed.                                  *)
C11_AttemptsSequential ==
    /\ Len(calls) - Len(outcomes) \in {0, 1}
    /\ Len(calls) - Len(outcomes) = 1 <=> pc = "func"
    /\ pc = "sleep" => (Len(sleeps) = Len(calls) /\ Len(outcomes) = Len(calls))
    /\ \A k \in 1..(Len(calls) - 1) :
           /\ k <= Len(outcomes) /\ Failed(k)
           /\ k <= Len(sleeps)
           /\ calls[k + 1] >= calls[k] + sleeps[k].slept

(* a third attempt is in flight after two sleeps of non-zero length *)
C11_Witness ==
    /\ pc = "func"
    /\ Len(calls) = 3
    /\ sleeps[1].slept > 0
    /\ sleeps[2].slept > 0

(* C14: new(name) gives attempts = 3, base_delay = 0, delay_factor = 1.0   *)
(* and no jitter; run on it makes at most 3 invocations, exactly 3 when    *)
(* func always fails, and every sleep lasts 0, so no time passes.          *)
C14_DefaultPolicy ==
    LET default == [name |-> "test", attempts |-> 3, base_delay |-> 0,
                    delay_factor |-> F(1, 1), enable_jitter |-> FALSE]
    IN  /\ New("test") = default
        /\ (policy = default /\ pc # "new") =>
               /\ Len(calls) <= 3
               /\ \A k \in 1..Len(sleeps) : sleeps[k].slept = 0
               /\ now = 0
               /\ panic = NoPanic
               /\ (Ended /\ AlwaysFails(func)) =>
                      (pc = "returned" /\ Len(calls) = 3 /\ result.tag = "Err")

(* run on the default policy has returned after three failures *)
C14_Witness ==
    /\ policy = New("test")
    /\ pc = "returned"
    /\ AlwaysFails(func)
    /\ Len(calls) = 3
    /\ Len(sleeps) = 2

(* C15: for a policy that passes the assertions, if every invocation       *)
(* completes and every sleep elapses, run eventually returns, within       *)
(* attempts iterations, and unreachable!() is never reached.  Violated: a  *)
(* run can end in the panic of delay.mul_f64 instead (C19).                *)
C15_RunEventuallyReturns ==
    /\ [](panic # "unreachable" /\ (Len(calls) >= 1 => i < policy.attempts))
    /\ (pc \in {"func", "sleep"}) ~> (pc = "returned")

(* C19: with a policy that passes the assertions the escalation            *)
(* delay = delay * delay_factor never makes run panic: run ends only by    *)
(* returning Ok or Err.  Violated: Duration::mul_f64 panics when the       *)
(* product is not finite or overflows Duration.                            *)
C19_EscalationNeverPanics ==
    (Valid(policy) /\ pc # "new") =>
        /\ panic = NoPanic
        /\ Ended => (pc = "returned" /\ result.tag \in {"Ok", "Err"})

(* C17, as stated: a fresh factor is drawn once for each sleep, the        *)
(* scheduled delay escalates from its unjittered value, no random value is *)
(* consumed without jitter, and with jitter the k-th sleep lies between    *)
(* 0.5 * base_delay * delay_factor^(k-1) and base_delay *                  *)
(* delay_factor^(k-1).  Violated: the escalation and the jittered product  *)
(* are both rounded to whole ticks, e.g. a scheduled delay of 3 ticks with *)
(* the factor 0.5 sleeps 1 tick.                                           *)
C17_SleepWithinExactRange ==
    /\ draws = IF policy.enable_jitter THEN Len(sleeps) ELSE 0
    /\ (policy.enable_jitter /\ IsFinite(policy.delay_factor)) =>
           \A k \in 1..Len(sleeps) :
               LET scale == Pow(policy.delay_factor.den, k - 1)
                   exact == policy.base_delay * Pow(policy.delay_factor.num, k - 1)
               IN  /\ exact <= 2 * sleeps[k].slept * scale
                   /\ sleeps[k].slept * scale <= exact

(* C17, amended: a fresh factor is drawn once for each sleep and none      *)
(* without jitter; the scheduled delay of the first sleep is base_delay    *)
(* and that of every later sleep is the previous scheduled delay, never    *)
(* the duration slept, multiplied by delay_factor and rounded to a whole   *)
(* tick; with jitter the k-th sleep lies between half its scheduled delay, *)
(* less half a tick, and its scheduled delay, which for a whole            *)
(* delay_factor is base_delay * delay_factor^(k-1).                        *)
C17_JitterDoesNotCompound ==
    /\ draws = IF policy.enable_jitter THEN Len(sleeps) ELSE 0
    /\ \A k \in 1..Len(sleeps) :
           /\ k = 1 => sleeps[k].scheduled = policy.base_delay
           /\ k > 1 =>
                  2 * Abs(sleeps[k].scheduled * policy.delay_factor.den
                          - sleeps[k - 1].scheduled * policy.delay_factor.num)
                      <= policy.delay_factor.den
           /\ policy.delay_factor.den = 1 =>
                  sleeps[k].scheduled
                      = policy.base_delay * Pow(policy.delay_factor.num, k - 1)
           /\ sleeps[k].scheduled - 1 <= 2 * sleeps[k].slept
           /\ sleeps[k].slept <= sleeps[k].scheduled
           /\ ~policy.enable_jitter => sleeps[k].slept = sleeps[k].scheduled

(* a run with jitter that slept less than scheduled, twice, and whose      *)
(* third scheduled delay is still four times the base delay                *)
C17_Witness ==
    /\ policy.enable_jitter
    /\ policy.delay_factor = F(2, 1)
    /\ policy.base_delay = TicksPerSec
    /\ Len(sleeps) = 3
    /\ draws = 3
    /\ sleeps[1].slept < sleeps[1].scheduled
    /\ sleeps[2].slept < sleeps[2].scheduled
    /\ sleeps[3].scheduled = 4 * TicksPerSec

(* C20: each setter returns a policy that differs from the one it is       *)
(* called on only in the field it names; setters of different fields       *)
(* commute, and of two calls of the same setter the last one counts.       *)
C20_SettersChangeOneField ==
    pc = "new" =>
        \A n \in AttemptsRange, d \in BaseDelays, f \in DelayFactors, b \in BOOLEAN :
            LET p == policy
                pn == WithAttempts(p, n)
                pd == WithBaseDelay(p, d)
                pf == WithDelayFactor(p, f)
                pb == WithJitter(p, b)
            IN  /\ pn = [name |-> p.name, attempts |-> n, base_delay |-> p.base_delay,
                         delay_factor |-> p.delay_factor, enable_jitter |-> p.enable_jitter]
                /\ pd = [name |-> p.name, attempts |-> p.attempts, base_delay |-> d,
                         delay_factor |-> p.delay_factor, enable_jitter |-> p.enable_jitter]
                /\ pf = [name |-> p.name, attempts |-> p.attempts, base_delay |-> p.base_delay,
                         delay_factor |-> f, enable_jitter |-> p.enable_jitter]
                /\ pb = [name |-> p.name, attempts |-> p.attempts, base_delay |-> p.base_delay,
                         delay_factor |-> p.delay_factor, enable_jitter |-> b]
                /\ WithBaseDelay(pn, d) = WithAttempts(pd, n)
                /\ WithDelayFactor(pn, f) = WithAttempts(pf, n)
                /\ WithJitter(pn, b) = WithAttempts(pb, n)
                /\ WithDelayFactor(pd, f) = WithBaseDelay(pf, d)
                /\ WithJitter(pd, b) = WithBaseDelay(pb, d)
                /\ WithJitter(pf, b) = WithDelayFactor(pb, f)
                /\ \A n2 \in AttemptsRange : WithAttempts(WithAttempts(p, n2), n) = pn
                /\ WithAttempts(pn, p.attempts) = p
                /\ \A d2 \in BaseDelays : WithBaseDelay(WithBaseDelay(p, d2), d) = pd
                /\ WithBaseDelay(pd, p.base_delay) = p
                /\ \A f2 \in DelayFactors : WithDelayFactor(WithDelayFactor(p, f2), f) = pf
                /\ WithDelayFactor(pf, p.delay_factor) = p
                /\ \A b2 \in BOOLEAN : WithJitter(WithJitter(p, b2), b) = pb
                /\ WithJitter(pb, p.enable_jitter) = p

(* a policy on which all four setters have been called *)
C20_Witness ==
    /\ pc = "new"
    /\ policy.attempts = 5
    /\ policy.base_delay = TicksPerSec
    /\ policy.delay_factor = F(2, 1)
    /\ policy.enable_jitter

----------------------------------------------------------------------------
(* Two calls of run on one policy *)

(* The first call, in the form of the second. *)
First ==
    [pc |-> pc, self |-> policy, func |-> func, i |-> i, delay |-> delay,
     calls |-> Len(calls), outcomes |-> outcomes, warned |-> warned, sleeps |-> sleeps,
     result |-> result, panic |-> panic, prior |-> "new"]

Tags(o) == [k \in 1..Len(o) |-> o[k].tag]

(* What a call c produces when it runs alone, given the outcomes of its    *)
(* invocations: the run of Retry::run on c.self and c.outcomes.            *)
AsAlone(c) ==
    LET p == c.self
        n == Len(c.outcomes)
        retried == n > 0 /\ c.outcomes[n].tag = "Err" /\ n < p.attempts
        done == n > 0 /\ ~retried
    IN  IF ~AssertAttempts(p)
        THEN c.pc = "panicked" /\ c.panic = "attempts must be greater than 0" /\ c.calls = 0
        ELSE IF ~AssertDelay(p)
        THEN c.pc = "panicked" /\ c.panic = "retry delay cannot be negative" /\ c.calls = 0
        ELSE /\ n <= p.attempts
             /\ \A k \in 1..(n - 1) : c.outcomes[k].tag = "Err"
             /\ c.calls \in {n, n + 1} /\ c.calls <= p.attempts
             /\ c.pc = "func" => c.calls = n + 1
             /\ c.pc \in {"sleep", "returned", "panicked"} => c.calls = n
             /\ done <=> c.pc = "returned"
             /\ c.result = IF done THEN c.outcomes[n] ELSE None
             /\ Len(c.sleeps) = IF done THEN n - 1 ELSE n
             /\ Len(c.warned) = Len(c.sleeps)
             /\ \A k \in 1..Len(c.sleeps) :
                    /\ c.warned[k] = [name |-> p.name, err |-> c.outcomes[k].val]
                    /\ c.sleeps[k].scheduled
                           \in IF k = 1 THEN {p.base_delay}
                               ELSE MulF64(c.sleeps[k - 1].scheduled, p.delay_factor)
                    /\ c.sleeps[k].slept \in ApplyJitter(p, c.sleeps[k].scheduled)
             /\ c.pc = "panicked" =>
                    c.panic = "mul_f64" /\ ~IsFinite(p.delay_factor) /\ retried
             /\ ~IsFinite(p.delay_factor) => c.calls <= 1

(* C12: two calls of run on the same policy whose steps interleave do not  *)
(* interfere: the invocations, scheduled delays, notifications and result  *)
(* of each are those of the call running alone with the same outcomes.     *)
C12_CallsDoNotInterfere ==
    /\ pc # "new" => AsAlone(First)
    /\ other.pc # "new" => (other.self = policy /\ AsAlone(other))

(* the second call started while the first was in flight; the first has    *)
(* escalated its delay twice and the second has not yet                    *)
C12_Witness ==
    /\ other.prior \in {"func", "sleep"}
    /\ pc = "func" /\ Len(calls) = 3
    /\ policy.base_delay = 3 /\ policy.delay_factor = F(2, 1)
    /\ delay = 12
    /\ other.pc = "sleep" /\ Len(other.sleeps) = 1
    /\ other.delay = 3

(* C13: run leaves the policy as it was, whether it returns Ok or Err or   *)
(* panics, and keeps no state from one call to the next: a second call on  *)
(* the same policy starts at index 0 with delay = base_delay however far   *)
(* the delay of the first call has escalated.                              *)
C13_RunKeepsNoState ==
    /\ [][policy' = policy]_vars
    /\ [][(other.pc = "new" /\ other'.pc = "func") =>
              (other'.self = policy /\ other'.i = 0 /\ other'.delay = policy.base_delay)]_vars
    /\ [](other.pc # "new" =>
              /\ other.self = policy
              /\ Len(other.sleeps) >= 1 => other.sleeps[1].scheduled = policy.base_delay)

(* the second call was made after the first had returned with an escalated *)
(* delay, and its first sleep is scheduled for base_delay                  *)
C13_Witness ==
    /\ other.prior = "returned"
    /\ policy.base_delay > 0
    /\ delay > policy.base_delay
    /\ Len(other.sleeps) >= 1
    /\ other.sleeps[1].scheduled = policy.base_delay

(* C16: the control flow of run does not depend on the error value: two    *)
(* calls on the same policy whose invocations had the same sequence of     *)
(* Ok/Err outcomes have made the same number of invocations and scheduled  *)
(* the same sleeps (slept for the same time without jitter, and for a time *)
(* in the same jitter range with it), whatever the errors were, both once  *)
(* the last outcome has been handled and once the calls have ended; every  *)
(* failure with attempts remaining is retried.                             *)
C16_ErrorValueIsNotInspected ==
    /\ \A k \in 1..Len(outcomes) :
           (Valid(policy) /\ Failed(k) /\ k < policy.attempts) =>
               (k <= Len(sleeps) /\ warned[k].err = outcomes[k].val)
    /\ ( /\ other.self = policy
         /\ \/ pc \in {"sleep", "returned"} /\ other.pc \in {"sleep", "returned"}
            \/ pc \in {"returned", "panicked"} /\ other.pc \in {"returned", "panicked"}
         /\ Tags(outcomes) = Tags(other.outcomes)
         /\ \A k \in 1..(Len(sleeps) - 1) :
                Cardinality(MulF64(sleeps[k].scheduled, policy.delay_factor)) = 1 )
       => /\ pc = other.pc
          /\ Len(calls) = other.calls
          /\ Len(sleeps) = Len(other.sleeps)
          /\ Len(warned) = Len(other.warned)
          /\ result.tag = other.result.tag
          /\ panic = other.panic
          /\ \A k \in 1..Len(sleeps) :
                 /\ sleeps[k].scheduled = other.sleeps[k].scheduled
                 /\ ~policy.enable_jitter => sleeps[k].slept = other.sleeps[k].slept
                 /\ other.sleeps[k].slept \in ApplyJitter(policy, sleeps[k].scheduled)

(* two calls that failed twice with different errors and both sleep for    *)
(* the second time                                                         *)
C16_Witness ==
    /\ pc = "sleep" /\ other.pc = "sleep"
    /\ Len(outcomes) = 2 /\ Len(other.outcomes) = 2
    /\ outcomes[1] = Err("e2") /\ other.outcomes[1] = Err("e1")
    /\ outcomes[2] = Err("e2") /\ other.outcomes[2] = Err("e2")
    /\ Len(sleeps) = 2 /\ Len(other.sleeps) = 2

(* C18: a call of run dropped while it waits for func or sleeps is         *)
(* abandoned: it invokes func no more, emits no more notifications and     *)
(* returns nothing, and dropping it changes neither the policy nor the     *)
(* other call, which goes on as if alone.                                  *)
C18_CancelAbandonsTheCall ==
    /\ [][other.pc = "cancelled" => other' = other]_vars
    /\ [][(other.pc # "cancelled" /\ other'.pc = "cancelled") =>
              /\ other.pc \in {"func", "sleep"}
              /\ other' = [other EXCEPT !.pc = "cancelled"]
              /\ UNCHANGED <<policy, callVars>>]_vars
    /\ [](other.pc = "cancelled" =>
              /\ other.result = None /\ other.panic = NoPanic
              /\ Len(other.warned) = Len(other.sleeps)
              /\ other.calls \in {Len(other.sleeps), Len(other.sleeps) + 1}
              /\ pc # "new" => AsAlone(First))

(* the second call was dropped in its first sleep, and the first call has  *)
(* since made all its attempts and returned the last error                 *)
C18_Witness ==
    /\ other.pc = "cancelled"
    /\ other.calls = 1 /\ Len(other.sleeps) = 1
    /\ other.prior = "new"
    /\ pc = "returned" /\ Len(calls) = 3 /\ result.tag = "Err"
====
